---------------------------- MODULE Spec2Model ----------------------------
(***************************************************************************)
(* Model of calc.py: the price ladder (generar_precios), the lot rule      *)
(* table (asignar_lotes), the running totals (calcular_acumulados), the    *)
(* final price validation (validar_precio_final) and the button handler    *)
(* of main that chains them.                                               *)
(*                                                                         *)
(* NUMBERS.  The Python floats are modelled as exact rationals; the        *)
(* rounding error of IEEE doubles is not modelled.  A number is a record   *)
(*     [n, d, un, ud]   standing for   (n / d) * (un / ud)                 *)
(* n/d is the part that varies with the data, un/ud collects the constant  *)
(* factors (1/1000 of a price, 1/8 of a raw lot, the divisor 1.5932, the   *)
(* 100 units of a lot).  Both fractions are kept in lowest terms, so every *)
(* integer TLC handles stays inside 32 bits.  d = 0 is a non-finite float  *)
(* (NaN, inf): pandas divides by zero without raising.                     *)
(***************************************************************************)
EXTENDS Integers, Sequences, FiniteSets, TLC

\* ------------------------------------------------------------------ numbers

Abs(x) == IF x < 0 THEN -x ELSE x

Sign(x) == IF x < 0 THEN -1 ELSE IF x = 0 THEN 0 ELSE 1

RECURSIVE GCD(_, _)
GCD(a, b) == IF b = 0 THEN a ELSE GCD(b, a % b)

\* n/d in lowest terms with d >= 0; x/0 keeps only the sign of x.
Frac(n, d) ==
    IF d = 0 THEN <<Sign(n), 0>>
    ELSE LET g == GCD(Abs(n), Abs(d))
         IN  <<Sign(d) * (n \div g), Abs(d) \div g>>

Num(n, d, un, ud) ==
    LET f == Frac(n, d)
        u == Frac(un, ud)
    IN  [n |-> f[1], d |-> f[2], un |-> u[1], ud |-> u[2]]

NaN == [n |-> 0, d |-> 0, un |-> 1, ud |-> 1]

Finite(a) == a.d # 0

\* A Python int k used in float arithmetic.
FromInt(k) == Num(k, 1, 1, 1)

\* A module-level constant m / scale > 0 (1.5932 is Cte(15932, 10000), 100 is
\* Cte(100, 1)): a constant factor, so all of it is unit.
Cte(m, scale) == Num(1, 1, m, scale)

\* The decimal literal m / scale of a data value (0.625 is Lit(625, 1000)): in
\* lowest terms, the numerator is the varying part and the denominator the unit.
Lit(m, scale) ==
    LET f == Frac(m, scale)
    IN  Num(f[1], 1, 1, f[2])

\* a * b, cancelling across the two fractions before multiplying.
Mul(a, b) ==
    IF ~Finite(a) \/ ~Finite(b) THEN NaN
    ELSE LET g1 == GCD(Abs(a.n), b.d)
             g2 == GCD(Abs(b.n), a.d)
             u1 == GCD(a.un, b.ud)
             u2 == GCD(b.un, a.ud)
         IN  Num((a.n \div g1) * (b.n \div g2), (a.d \div g2) * (b.d \div g1),
                 (a.un \div u1) * (b.un \div u2), (a.ud \div u2) * (b.ud \div u1))

\* 1 / b; 1/0 is non-finite.
Inv(b) ==
    IF ~Finite(b) THEN NaN
    ELSE IF b.n = 0 THEN [n |-> 1, d |-> 0, un |-> 1, ud |-> 1]
    ELSE [n |-> Sign(b.n) * b.d, d |-> Abs(b.n), un |-> b.ud, ud |-> b.un]

\* a / b as the float division does it: x/0 is inf, 0/0 is NaN, never an error.
Div(a, b) ==
    IF ~Finite(a) \/ ~Finite(b) THEN NaN
    ELSE IF b.n = 0 THEN [n |-> Sign(a.n), d |-> 0, un |-> 1, ud |-> 1]
    ELSE Mul(a, Inv(b))

\* a + b: x + 0 is x; otherwise both are brought to the common unit
\* b.unit / rd = a.unit / rn, where rn/rd = a.unit / b.unit.
Add(a, b) ==
    IF ~Finite(a) \/ ~Finite(b) THEN NaN
    ELSE IF a.n = 0 THEN b
    ELSE IF b.n = 0 THEN a
    ELSE LET r  == Frac(a.un * b.ud, a.ud * b.un)
             g  == GCD(a.d, b.d)
         IN  Num(a.n * r[1] * (b.d \div g) + b.n * r[2] * (a.d \div g),
                 (a.d \div g) * b.d,
                 b.un, b.ud * r[2])

Neg(a) == [a EXCEPT !.n = -a.n]

Sub(a, b) == Add(a, Neg(b))

AbsNum(a) == [a EXCEPT !.n = Abs(a.n)]

\* Comparisons of floats: every comparison with a NaN is false.
Eq(a, b)  == Finite(a) /\ Finite(b) /\ Sub(a, b).n = 0
Leq(a, b) == Finite(a) /\ Finite(b) /\ Sub(b, a).n >= 0
Lt(a, b)  == Finite(a) /\ Finite(b) /\ Sub(b, a).n > 0
Neq(a, b) == ~Eq(a, b)

RECURSIVE Pow10(_)
Pow10(k) == IF k = 0 THEN 1 ELSE 10 * Pow10(k - 1)

\* Series.round(k): the nearest multiple of 10^-k, a tie going to the even one
\* (numpy's rint).  With x * 10^k = n * A / D the quotient is taken in two parts,
\* n = q * D + r, so that no intermediate product leaves 32 bits.
Round(a, k) ==
    IF ~Finite(a) THEN a
    ELSE LET u    == Frac(a.un * Pow10(k), a.ud)
             A    == u[1]
             D    == a.d * u[2]
             q    == a.n \div D
             r    == a.n % D
             lo   == q * A + ((r * A) \div D)
             rem  == (r * A) % D
             up   == IF 2 * rem > D THEN 1
                     ELSE IF 2 * rem < D THEN 0
                     ELSE lo % 2
         IN  Num(lo + up, 1, 1, Pow10(k))

\* ---------------------------------------------------------------- constants

LOTES_A_UNIDADES == 100

PASO == 5

TOTAL_UNIDADES == 120

DIVISOR_LOTE == Cte(15932, 10000)

\* ------------------------------------------------------------- generar_precios

\* numero_puntos = total_unidades // paso + 1 levels, level i = precio_inicial - i * paso
\* for i in range(numero_puntos); the sequence index is i + 1.
\* Mutant: the "+ 1" that includes the final price is forgotten.
generar_precios_sin_final(p_inicial, total, step) ==
    LET numero_puntos == total \div step
    IN  [k \in 1..numero_puntos |-> Sub(p_inicial, FromInt((k - 1) * step))]

generar_precios(p_inicial, total, step) ==
    LET numero_puntos == (total \div step) + 1
    IN  [k \in 1..numero_puntos |-> Sub(p_inicial, FromInt((k - 1) * step))]

\* --------------------------------------------------------------- asignar_lotes

\* Mutant: "diferencia in [25, 30]" written as the range 25 <= diferencia <= 30.
Regla_rango(k, dif) ==
    CASE k = 1 -> Leq(FromInt(0), dif) /\ Leq(dif, FromInt(15))
      [] k = 2 -> Eq(dif, FromInt(20))
      [] k = 3 -> Leq(FromInt(25), dif) /\ Leq(dif, FromInt(30))
      [] k = 4 -> Leq(FromInt(35), dif) /\ Leq(dif, FromInt(55))
      [] k = 5 -> Eq(dif, FromInt(60))
      [] k = 6 -> Leq(FromInt(65), dif) /\ Leq(dif, FromInt(90))
      [] k = 7 -> Leq(FromInt(91), dif) /\ Leq(dif, FromInt(94))
      [] k = 8 -> Leq(FromInt(95), dif) /\ Leq(dif, FromInt(120))

\* The conditions of the if / elif chain, in source order, on diferencia.
Regla(k, dif) ==
    CASE k = 1 -> Leq(FromInt(0), dif) /\ Leq(dif, FromInt(15))
      [] k = 2 -> Eq(dif, FromInt(20))
      [] k = 3 -> Eq(dif, FromInt(25)) \/ Eq(dif, FromInt(30))
      [] k = 4 -> Leq(FromInt(35), dif) /\ Leq(dif, FromInt(55))
      [] k = 5 -> Eq(dif, FromInt(60))
      [] k = 6 -> Leq(FromInt(65), dif) /\ Leq(dif, FromInt(90))
      [] k = 7 -> Leq(FromInt(91), dif) /\ Leq(dif, FromInt(94))
      [] k = 8 -> Leq(FromInt(95), dif) /\ Leq(dif, FromInt(120))

NumReglas == 8

\* The branch of the chain that diferencia takes: the first condition that holds,
\* 0 for the final else.
Rama(dif) ==
    IF \E k \in 1..NumReglas : Regla(k, dif)
    THEN CHOOSE k \in 1..NumReglas :
            Regla(k, dif) /\ \A j \in 1..(k - 1) : ~Regla(j, dif)
    ELSE 0

\* Mutant: the lots of the first two branches are swapped, 0.0 for 0..15.
LoteDeRama_primero_cero(k, dif) ==
    CASE k = 1 -> Lit(0, 10)
      [] k = 2 -> Lit(5, 10)
      [] k = 3 -> Lit(20, 10)
      [] k = 4 -> IF Eq(dif, FromInt(55)) THEN Lit(0, 10) ELSE Lit(625, 1000)
      [] k = 5 -> Lit(60, 10)
      [] k = 6 -> Lit(20, 10)
      [] k = 7 -> Lit(15, 10)
      [] k = 8 -> Lit(3375, 1000)
      [] k = 0 -> Lit(5, 10)

\* Mutant: the nested "if diferencia == 55" is dropped, 35..55 all get 0.625.
LoteDeRama_sin_excepcion(k, dif) ==
    CASE k = 1 -> Lit(5, 10)
      [] k = 2 -> Lit(0, 10)
      [] k = 3 -> Lit(20, 10)
      [] k = 4 -> Lit(625, 1000)
      [] k = 5 -> Lit(60, 10)
      [] k = 6 -> Lit(20, 10)
      [] k = 7 -> Lit(15, 10)
      [] k = 8 -> Lit(3375, 1000)
      [] k = 0 -> Lit(5, 10)

\* What the branch appends to lotes.
LoteDeRama(k, dif) ==
    CASE k = 1 -> Lit(5, 10)
      [] k = 2 -> Lit(0, 10)
      [] k = 3 -> Lit(20, 10)
      [] k = 4 -> IF Eq(dif, FromInt(55)) THEN Lit(0, 10) ELSE Lit(625, 1000)
      [] k = 5 -> Lit(60, 10)
      [] k = 6 -> Lit(20, 10)
      [] k = 7 -> Lit(15, 10)
      [] k = 8 -> Lit(3375, 1000)
      [] k = 0 -> Lit(5, 10)

\* The lot appended for one price.
LoteBruto(p_inicial, precio) ==
    LET diferencia == Sub(p_inicial, precio)
    IN  LoteDeRama(Rama(diferencia), diferencia)

\* lotes_ajustados = [lote / DIVISOR_LOTE for lote in lotes]
Ajustar(lote) == Div(lote, DIVISOR_LOTE)

\* Mutant: a lot of zero is not appended.
asignar_lotes_sin_ceros(p_inicial, lista) ==
    SelectSeq([i \in 1..Len(lista) |-> Ajustar(LoteBruto(p_inicial, lista[i]))],
              LAMBDA x : x.n # 0)

asignar_lotes(p_inicial, lista) ==
    [i \in 1..Len(lista) |-> Ajustar(LoteBruto(p_inicial, lista[i]))]

\* ------------------------------------------------------------- crear_dataframe

\* A DataFrame is a function from column names to columns (sequences).
crear_dataframe(lista, lots) ==
    [c \in {"Precio", "Lotes"} |-> IF c = "Precio" THEN lista ELSE lots]

NumFilas(d) == Len(d["Precio"])

\* --------------------------------------------------------- calcular_acumulados

RECURSIVE SumaHasta(_, _)
SumaHasta(s, i) == IF i = 1 THEN s[1] ELSE Add(SumaHasta(s, i - 1), s[i])

\* Mutant: the column itself instead of its running sum.
cumsum_sin_acumular(s) == s

\* Series.cumsum().  Its inputs here (Lotes, Precio * Lotes * 100) are never NaN,
\* so the skipping of NaN by cumsum plays no part.
cumsum(s) == [i \in 1..Len(s) |-> SumaHasta(s, i)]

\* Element-wise Series arithmetic.
SerieMul(s, t) == [i \in 1..Len(s) |-> Mul(s[i], t[i])]
SerieDiv(s, t) == [i \in 1..Len(s) |-> Div(s[i], t[i])]
SerieSub(s, t) == [i \in 1..Len(s) |-> Sub(s[i], t[i])]
SerieEscala(s, k) == [i \in 1..Len(s) |-> Mul(s[i], Cte(k, 1))]
SerieAbs(s) == [i \in 1..Len(s) |-> AbsNum(s[i])]
SerieDesde(x, s) == [i \in 1..Len(s) |-> Sub(x, s[i])]

\* Mutant: the break-even divides by the lots, not by the units (lots * 100).
calcular_acumulados_sin_unidades(d, p_inicial) ==
    LET lotes_acum == cumsum(d["Lotes"])
        costo_acum == cumsum(SerieEscala(SerieMul(d["Precio"], d["Lotes"]),
                                         LOTES_A_UNIDADES))
        unidades   == SerieEscala(lotes_acum, LOTES_A_UNIDADES)
        break_even == SerieDiv(costo_acum, lotes_acum)
        flotante   == SerieMul(SerieSub(d["Precio"], break_even), unidades)
        puntos     == SerieAbs(SerieSub(d["Precio"], break_even))
        ganancia   == SerieMul(SerieDesde(p_inicial, break_even), unidades)
    IN  d @@ ("Lotes Acumulados" :> lotes_acum)
          @@ ("Costo Acumulado" :> costo_acum)
          @@ ("Break Even" :> break_even)
          @@ ("Flotante" :> flotante)
          @@ ("Puntos de salida" :> puntos)
          @@ ("Ganancia Potencial" :> ganancia)

calcular_acumulados(d, p_inicial) ==
    LET lotes_acum == cumsum(d["Lotes"])
        costo_acum == cumsum(SerieEscala(SerieMul(d["Precio"], d["Lotes"]),
                                         LOTES_A_UNIDADES))
        unidades   == SerieEscala(lotes_acum, LOTES_A_UNIDADES)
        break_even == SerieDiv(costo_acum, unidades)
        flotante   == SerieMul(SerieSub(d["Precio"], break_even), unidades)
        puntos     == SerieAbs(SerieSub(d["Precio"], break_even))
        ganancia   == SerieMul(SerieDesde(p_inicial, break_even), unidades)
    IN  d @@ ("Lotes Acumulados" :> lotes_acum)
          @@ ("Costo Acumulado" :> costo_acum)
          @@ ("Break Even" :> break_even)
          @@ ("Flotante" :> flotante)
          @@ ("Puntos de salida" :> puntos)
          @@ ("Ganancia Potencial" :> ganancia)

\* ------------------------------------------------------- validar_precio_final

\* df['Precio'].iloc[-1]
UltimoPrecio(d) == d["Precio"][NumFilas(d)]

\* Mutant: the check passes whenever the last price is not under the expected one.
validar_precio_final_mayor(d, precio_esperado) ==
    Leq(precio_esperado, UltimoPrecio(d))

\* True unless ultimo_precio_calculado != precio_esperado.
validar_precio_final(d, precio_esperado) ==
    ~Neq(UltimoPrecio(d), precio_esperado)

\* ------------------------------------------------------------------------ main

\* Series.round(k) on one column.
SerieRound(s, k) == [i \in 1..Len(s) |-> Round(s[i], k)]

\* Lines 127-134: the eight columns rounded in place for display.
Decimales(c) == IF c \in {"Lotes", "Lotes Acumulados"} THEN 4 ELSE 2

RedondearColumnas(d) == [c \in DOMAIN d |-> SerieRound(d[c], Decimales(c))]

\* precio_esperado = precio_inicial - TOTAL_UNIDADES
PrecioEsperado(p_inicial) == Sub(p_inicial, FromInt(TOTAL_UNIDADES))

\* ----------------------------------------------------------------------- state

VARIABLES
    pc,              \* where the script is
    precio_inicial,  \* the value of the number input
    args,            \* the other arguments of a call made outside main
    precios,         \* the ladder
    lotes,           \* the lots
    df,              \* the DataFrame
    es_valido,       \* the result of validar_precio_final
    errores,         \* the st.error messages, in order
    salida           \* what st.dataframe and the four st.write calls emitted

vars == <<pc, precio_inicial, args, precios, lotes, df, es_valido, errores, salida>>

Nada == [c \in {} |-> <<>>]

SinArgs == [total_unidades |-> TOTAL_UNIDADES, paso |-> PASO]

\* Prices are entered in thousandths: one decimal more than the two the table shows.
Milesimas == 10 * 100

Precio(m) == Num(m, 1, 1, Milesimas)

\* The number input: min_value = 1.00, value = 2700.00.
MIN_VALUE == Precio(1 * Milesimas)

VALOR_INICIAL == Precio(2700 * Milesimas)

\* The starting prices entered: a few prices in hundredths, each with the
\* thousandths 0..MaxMilesimas added.
MaxMilesimas == 12

Centesimas == {100, 821, 6000, 12000, 13010, 270000}

PreciosIniciales ==
    {Precio(c * 10 + f) : c \in Centesimas, f \in 0..MaxMilesimas}

\* ------------------------------------------------------- main, step by step

\* The script before the button is pressed: the widget holds its default value.
Init ==
    /\ pc = "entrada"
    /\ precio_inicial = VALOR_INICIAL
    /\ args = SinArgs
    /\ precios = <<>>
    /\ lotes = <<>>
    /\ df = Nada
    /\ es_valido = FALSE
    /\ errores = <<>>
    /\ salida = <<>>

\* The user edits the number input (the widget refuses a value under min_value).
Ingresar ==
    /\ pc = "entrada"
    /\ \E p \in PreciosIniciales :
          /\ Leq(MIN_VALUE, p)
          /\ precio_inicial' = p
    /\ UNCHANGED <<pc, args, precios, lotes, df, es_valido, errores, salida>>

\* The button is pressed: line 111.
Generar ==
    /\ pc = "entrada"
    /\ precios' = generar_precios(precio_inicial, TOTAL_UNIDADES, PASO)
    /\ pc' = "generado"
    /\ UNCHANGED <<precio_inicial, args, lotes, df, es_valido, errores, salida>>

\* Line 114.
Asignar ==
    /\ pc = "generado"
    /\ lotes' = asignar_lotes(precio_inicial, precios)
    /\ pc' = "asignado"
    /\ UNCHANGED <<precio_inicial, args, precios, df, es_valido, errores, salida>>

\* Lines 117-124: the length check, then crear_dataframe and calcular_acumulados.
Acumular ==
    /\ pc = "asignado"
    /\ IF Len(precios) # Len(lotes)
       THEN /\ errores' = Append(errores, "longitud")
            /\ pc' = "fin"
            /\ df' = df
       ELSE /\ df' = calcular_acumulados(crear_dataframe(precios, lotes), precio_inicial)
            /\ pc' = "acumulado"
            /\ errores' = errores
    /\ UNCHANGED <<precio_inicial, args, precios, lotes, es_valido, salida>>

\* Lines 127-134.
Redondear ==
    /\ pc = "acumulado"
    /\ df' = RedondearColumnas(df)
    /\ pc' = "redondeado"
    /\ UNCHANGED <<precio_inicial, args, precios, lotes, es_valido, errores, salida>>

\* Lines 137-140: validar_precio_final reports the mismatch itself.
Validar ==
    /\ pc = "redondeado"
    /\ LET ok == validar_precio_final(df, PrecioEsperado(precio_inicial))
       IN  /\ es_valido' = ok
           /\ errores' = IF ok THEN errores ELSE Append(errores, "precio final")
    /\ pc' = "validado"
    /\ UNCHANGED <<precio_inicial, args, precios, lotes, df, salida>>

\* The last row's value of a column: df[c].iloc[-1].
Ultimo(d, c) == d[c][NumFilas(d)]

\* Lines 142-156: the table and the four scalars.
Emision(d) ==
    [tabla |-> d,
     break_even_final |-> Ultimo(d, "Break Even"),
     flotante_total |-> Ultimo(d, "Flotante"),
     ganancia_potencial_total |-> Ultimo(d, "Ganancia Potencial"),
     total_lotes_acumulados |-> Ultimo(d, "Lotes Acumulados")]

\* Mutant: the table is shown whatever validar_precio_final returned.
Mostrar_siempre ==
    /\ pc = "validado"
    /\ salida' = Append(salida, Emision(df))
    /\ pc' = "fin"
    /\ UNCHANGED <<precio_inicial, args, precios, lotes, df, es_valido, errores>>

Mostrar ==
    /\ pc = "validado"
    /\ salida' = IF es_valido THEN Append(salida, Emision(df)) ELSE salida
    /\ pc' = "fin"
    /\ UNCHANGED <<precio_inicial, args, precios, lotes, df, es_valido, errores>>

\* The next interaction reruns the script from the top; the widget keeps its value.
Reejecutar ==
    /\ pc = "fin"
    /\ pc' = "entrada"
    /\ precios' = <<>>
    /\ lotes' = <<>>
    /\ df' = Nada
    /\ es_valido' = FALSE
    /\ errores' = <<>>
    /\ salida' = <<>>
    /\ UNCHANGED <<precio_inicial, args>>

Next ==
    \/ Ingresar
    \/ Generar
    \/ Asignar
    \/ Acumular
    \/ Redondear
    \/ Validar
    \/ Mostrar
    \/ Reejecutar

Spec == Init /\ [][Next]_vars

\* ------------------------------------- generar_precios and validar_precio_final
\* called on their own, with any total_unidades >= 0 and any paso > 0

MaxTotal == 121

MaxPaso == 6

PreciosDePrueba == {Precio(1000), Precio(130125), Precio(2700000)}

InitGen ==
    /\ pc = "g_llamada"
    /\ precio_inicial \in PreciosDePrueba
    /\ args \in [total_unidades : 0..MaxTotal, paso : 1..MaxPaso]
    /\ precios = <<>>
    /\ lotes = <<>>
    /\ df = Nada
    /\ es_valido = FALSE
    /\ errores = <<>>
    /\ salida = <<>>

GenGenerar ==
    /\ pc = "g_llamada"
    /\ precios' = generar_precios(precio_inicial, args.total_unidades, args.paso)
    /\ lotes' = asignar_lotes(precio_inicial, precios')
    /\ pc' = "g_generado"
    /\ UNCHANGED <<precio_inicial, args, df, es_valido, errores, salida>>

\* validar_precio_final on the frame as crear_dataframe built it.
GenValidar ==
    /\ pc = "g_generado"
    /\ df' = crear_dataframe(precios, lotes)
    /\ LET ok == validar_precio_final(df',
                     Sub(precio_inicial, FromInt(args.total_unidades)))
       IN  /\ es_valido' = ok
           /\ errores' = IF ok THEN errores ELSE Append(errores, "precio final")
    /\ pc' = "g_validado"
    /\ UNCHANGED <<precio_inicial, args, precios, lotes, salida>>

\* validar_precio_final on the frame after the display rounding, as main calls it.
GenValidarRedondeado ==
    /\ pc = "g_generado"
    /\ df' = RedondearColumnas(crear_dataframe(precios, lotes))
    /\ LET ok == validar_precio_final(df',
                     Sub(precio_inicial, FromInt(args.total_unidades)))
       IN  /\ es_valido' = ok
           /\ errores' = IF ok THEN errores ELSE Append(errores, "precio final")
    /\ pc' = "g_validado"
    /\ UNCHANGED <<precio_inicial, args, precios, lotes, salida>>

NextGen ==
    \/ GenGenerar
    \/ GenValidar
    \/ GenValidarRedondeado

SpecGen == InitGen /\ [][NextGen]_vars

\* ------------------------------------------- asignar_lotes called on its own,
\* on prices at any distance from precio_inicial, in steps of one half

MaxDiferencia == 122

\* The price at k halves under p.
PrecioA(p, k) == Sub(p, Num(k, 1, 1, 2))

Medios == (0 - 4)..(2 * MaxDiferencia)

SegundosMedios == {0, 40, 66, 110}

InitLotes ==
    /\ pc = "l_llamada"
    /\ precio_inicial \in {Precio(130125), Precio(2700000)}
    /\ \E k1 \in Medios :
          \/ precios = <<PrecioA(precio_inicial, k1)>>
          \/ \E k2 \in SegundosMedios :
                precios = <<PrecioA(precio_inicial, k1), PrecioA(precio_inicial, k2)>>
    /\ args = SinArgs
    /\ lotes = <<>>
    /\ df = Nada
    /\ es_valido = FALSE
    /\ errores = <<>>
    /\ salida = <<>>

LotesAsignar ==
    /\ pc = "l_llamada"
    /\ lotes' = asignar_lotes(precio_inicial, precios)
    /\ pc' = "l_asignado"
    /\ UNCHANGED <<precio_inicial, args, precios, df, es_valido, errores, salida>>

NextLotes == LotesAsignar

SpecLotes == InitLotes /\ [][NextLotes]_vars

\* ------------------------------------- calcular_acumulados called on its own,
\* on a descending ladder with the lots of the table or with any lots >= 0

MaxFilas == 4

LotesLibres ==
    {Ajustar(Lit(0, 10)), Ajustar(Lit(5, 10)), Ajustar(Lit(625, 1000)), Ajustar(Lit(60, 10))}

InitAcum ==
    /\ pc = "a_llamada"
    /\ precio_inicial \in PreciosDePrueba
    /\ \E t \in {PASO * (f - 1) : f \in 1..MaxFilas} \cup {TOTAL_UNIDADES} :
          /\ args = [total_unidades |-> t, paso |-> PASO]
          /\ precios = generar_precios(precio_inicial, t, PASO)
    /\ lotes = <<>>
    /\ df = Nada
    /\ es_valido = FALSE
    /\ errores = <<>>
    /\ salida = <<>>

\* The lots of the rule table.
AcumTabla ==
    /\ pc = "a_llamada"
    /\ lotes' = asignar_lotes(precio_inicial, precios)
    /\ pc' = "a_lotes"
    /\ UNCHANGED <<precio_inicial, args, precios, df, es_valido, errores, salida>>

\* Any lots >= 0, one per price.
AcumLibre ==
    /\ pc = "a_llamada"
    /\ Len(precios) <= MaxFilas
    /\ lotes' \in [1..Len(precios) -> LotesLibres]
    /\ pc' = "a_lotes"
    /\ UNCHANGED <<precio_inicial, args, precios, df, es_valido, errores, salida>>

AcumCalcular ==
    /\ pc = "a_lotes"
    /\ df' = calcular_acumulados(crear_dataframe(precios, lotes), precio_inicial)
    /\ pc' = "a_acumulado"
    /\ UNCHANGED <<precio_inicial, args, precios, lotes, es_valido, errores, salida>>

NextAcum ==
    \/ AcumTabla
    \/ AcumLibre
    \/ AcumCalcular

SpecAcum == InitAcum /\ [][NextAcum]_vars

\* ---------------------------------------------------------------------- claims

\* C1: generar_precios(start, total, step) returns floor(total / step) + 1 >= 1
\* levels for every step > 0 and total >= 0; for total = 120 and step = 5 these are
\* exactly 25 levels, level[0] = start, level[i] = start - 5 * i, consecutive
\* levels differ by exactly 5 (strictly decreasing), level[24] = start - 120.
C1_Escalera ==
    pc \in {"g_generado", "g_validado"} =>
        LET t == args.total_unidades
            s == args.paso
            n == Len(precios)
        IN  /\ n >= 1
            /\ (n - 1) * s <= t
            /\ t < n * s
            /\ Eq(precios[1], precio_inicial)
            /\ (t = 120 /\ s = 5) =>
                  /\ n = 25
                  /\ \A i \in 0..24 :
                        Eq(precios[i + 1], Sub(precio_inicial, FromInt(5 * i)))
                  /\ \A i \in 1..24 :
                        /\ Eq(Sub(precios[i], precios[i + 1]), FromInt(5))
                        /\ Lt(precios[i + 1], precios[i])
                  /\ Eq(precios[25], Sub(precio_inicial, FromInt(120)))

C1_Witness ==
    /\ pc = "g_generado"
    /\ precio_inicial = Precio(2700000)
    /\ args = [total_unidades |-> 120, paso |-> 5]
    /\ Len(precios) = 25
    /\ Eq(precios[25], Precio(2580000))

\* C6: whenever total is not divisible by step, the last level differs from
\* start - total and validar_precio_final returns False and reports the mismatch;
\* the ladder itself was produced, not rejected.
C6_NoDivisible ==
    (pc = "g_validado" /\ args.total_unidades % args.paso # 0) =>
        /\ Len(precios) >= 1
        /\ Neq(precios[Len(precios)],
               Sub(precio_inicial, FromInt(args.total_unidades)))
        /\ es_valido = FALSE
        /\ errores = <<"precio final">>

C6_Witness ==
    /\ pc = "g_validado"
    /\ precio_inicial = Precio(2700000)
    /\ args = [total_unidades |-> 121, paso |-> 5]
    /\ Eq(UltimoPrecio(df), Precio(2580000))
    /\ es_valido = FALSE
    /\ errores = <<"precio final">>

\* The diferencia of the i-th price, and the integers it may equal.
Diferencia(i) == Sub(precio_inicial, precios[i])

Enteras == 0..120

\* The rule table as the specification lists it, on an integer distance.
EnTabla(d) ==
    d \in (0..15) \cup {20, 25, 30} \cup (35..55) \cup {60} \cup (65..120)

TablaBruto(d) ==
    CASE d \in 0..15   -> Lit(5, 10)
      [] d = 20        -> Lit(0, 10)
      [] d \in {25, 30} -> Lit(20, 10)
      [] d \in 35..54  -> Lit(625, 1000)
      [] d = 55        -> Lit(0, 10)
      [] d = 60        -> Lit(60, 10)
      [] d \in 65..90  -> Lit(20, 10)
      [] d \in 91..94  -> Lit(15, 10)
      [] d \in 95..120 -> Lit(3375, 1000)

\* C2: for every integer distance d in 0..120 that the table lists, the lot is the
\* raw lot of the table divided by 1.5932; at most one top-level condition holds
\* for any distance; d = 55 and d = 20 give exactly 0 and d = 60 gives 6.0 / 1.5932.
C2_Tabla ==
    pc = "l_asignado" =>
        \A i \in 1..Len(precios) :
            /\ Cardinality({k \in 1..NumReglas : Regla(k, Diferencia(i))}) <= 1
            /\ \A d \in Enteras :
                  (Eq(Diferencia(i), FromInt(d)) /\ EnTabla(d)) =>
                      /\ Eq(Mul(lotes[i], Cte(15932, 10000)), TablaBruto(d))
                      /\ d \in {20, 55} => (Finite(lotes[i]) /\ lotes[i].n = 0)
                      /\ d = 60 => Eq(lotes[i], Div(FromInt(6), Cte(15932, 10000)))

C2_Witness ==
    /\ pc = "l_asignado"
    /\ Len(precios) = 2
    /\ Eq(Diferencia(1), FromInt(60))
    /\ Eq(Diferencia(2), FromInt(55))
    /\ Eq(lotes[1], Div(FromInt(6), Cte(15932, 10000)))
    /\ lotes[2].n = 0

\* C3 as stated: the integer distances in 0..120 that reach the final else are
\* exactly 16-19, 21-24 and 31-34.
C3_HuecosDelSpec ==
    pc = "l_asignado" =>
        \A i \in 1..Len(precios) : \A d \in Enteras :
            Eq(Diferencia(i), FromInt(d)) =>
                (Rama(Diferencia(i)) = 0
                    <=> d \in (16..19) \cup (21..24) \cup (31..34))

Huecos == (16..19) \cup (21..24) \cup (26..29) \cup (31..34) \cup (56..59) \cup (61..64)

\* C3 amended: every distance reaches some branch and gets a lot, and the integer
\* distances in 0..120 that reach the final else, with the default raw lot 0.5,
\* are exactly 16-19, 21-24, 26-29, 31-34, 56-59 and 61-64.
C3_Huecos ==
    pc = "l_asignado" =>
        /\ Len(lotes) = Len(precios)
        /\ \A i \in 1..Len(precios) :
              /\ Rama(Diferencia(i)) \in 0..NumReglas
              /\ Finite(lotes[i])
              /\ \A d \in Enteras :
                    Eq(Diferencia(i), FromInt(d)) =>
                        /\ Rama(Diferencia(i)) = 0 <=> d \in Huecos
                        /\ d \in Huecos =>
                              Eq(Mul(lotes[i], Cte(15932, 10000)), Lit(5, 10))

C3_Witness ==
    /\ pc = "l_asignado"
    /\ Eq(Diferencia(1), FromInt(27))
    /\ Rama(Diferencia(1)) = 0
    /\ Eq(lotes[1], Div(Lit(5, 10), Cte(15932, 10000)))

Cero == FromInt(0)

\* C4: the lots have the length and the order of the ladder, lot[i] being the lot
\* of price[i] (at distance 5 * i), and main never reports a length mismatch.
C4_MismaLongitud ==
    /\ \A j \in 1..Len(errores) : errores[j] # "longitud"
    /\ pc \in {"asignado", "acumulado", "redondeado", "validado", "fin"} =>
          /\ Len(lotes) = Len(precios)
          /\ \A i \in 1..Len(precios) :
                Eq(Mul(lotes[i], Cte(15932, 10000)), TablaBruto(5 * (i - 1)))
    /\ pc \in {"acumulado", "redondeado", "validado", "fin"} =>
          /\ DOMAIN df # {}
          /\ \A c \in DOMAIN df : Len(df[c]) = Len(precios)

C4_Witness ==
    /\ pc = "acumulado"
    /\ Len(precios) = 25
    /\ Len(lotes) = 25
    /\ lotes[12].n = 0
    /\ Eq(lotes[13], Div(FromInt(6), Cte(15932, 10000)))

\* C5: Lotes Acumulados is the running sum of Lotes and is non-decreasing from
\* each row to the next (also as displayed, rounded), every lot being >= 0.
C5_Monotono ==
    /\ pc = "acumulado" =>
          /\ Eq(df["Lotes Acumulados"][1], df["Lotes"][1])
          /\ \A i \in 1..(NumFilas(df) - 1) :
                Eq(df["Lotes Acumulados"][i + 1],
                   Add(df["Lotes Acumulados"][i], df["Lotes"][i + 1]))
    /\ pc \in {"acumulado", "redondeado", "validado", "fin"} =>
          /\ \A i \in 1..NumFilas(df) : Leq(Cero, df["Lotes"][i])
          /\ \A i \in 1..(NumFilas(df) - 1) :
                Leq(df["Lotes Acumulados"][i], df["Lotes Acumulados"][i + 1])

C5_Witness ==
    /\ pc = "acumulado"
    /\ NumFilas(df) = 25
    /\ Eq(df["Lotes Acumulados"][4], df["Lotes Acumulados"][5])
    /\ Lt(df["Lotes Acumulados"][5], df["Lotes Acumulados"][6])

\* C8 as stated: main never reports the final price mismatch: the price the
\* validator receives equals start - 120 exactly, whatever the decimals of start.
C8_NuncaFalla ==
    pc \in {"validado", "fin"} =>
        /\ Eq(UltimoPrecio(df), PrecioEsperado(precio_inicial))
        /\ es_valido
        /\ errores = <<>>

\* C9: the table and the four scalars are emitted only by the step that follows a
\* passed length check and a passed validar_precio_final, the scalars being the
\* last row's fields; a failed check leaves an error and no emission.
C9_Emision ==
    [][/\ (salida' # salida /\ salida' # <<>>) =>
              /\ pc = "validado"
              /\ es_valido
              /\ errores = <<>>
              /\ Len(precios) = Len(lotes)
              /\ Len(salida') = 1
              /\ salida'[1].tabla = df
              /\ salida'[1].break_even_final = df["Break Even"][NumFilas(df)]
              /\ salida'[1].flotante_total = df["Flotante"][NumFilas(df)]
              /\ salida'[1].ganancia_potencial_total
                    = df["Ganancia Potencial"][NumFilas(df)]
              /\ salida'[1].total_lotes_acumulados
                    = df["Lotes Acumulados"][NumFilas(df)]
       /\ errores' # <<>> => salida' = <<>>
       /\ (pc' = "fin" /\ ~es_valido') => (errores' # <<>> /\ salida' = <<>>)
       /\ (pc' = "fin" /\ es_valido') => (errores' = <<>> /\ salida' # <<>>)
      ]_vars

C9_Witness ==
    /\ pc = "fin"
    /\ es_valido
    /\ Len(salida) = 1
    /\ salida[1].tabla = df
    /\ salida[1].break_even_final = df["Break Even"][25]

\* What is summed up to row i to give the cost: price * lot.
RECURSIVE SumaPrecioLote(_)
SumaPrecioLote(i) ==
    IF i = 1 THEN Mul(precios[1], lotes[1])
    ELSE Add(SumaPrecioLote(i - 1), Mul(precios[i], lotes[i]))

EsCero(a) == Finite(a) /\ a.n = 0

\* C7: over any lots >= 0, Lotes Acumulados is 0 at some row (and the break-even
\* there is the undefined 0/0) only if the very first lot is 0; with the lots of
\* the rule table the first lot is 0.5 / 1.5932 > 0, so Lotes Acumulados > 0 and
\* the break-even is defined at every row.
C7_BreakEvenDefinido ==
    pc = "a_acumulado" =>
        /\ \A i \in 1..NumFilas(df) :
              /\ EsCero(df["Lotes Acumulados"][i]) => EsCero(lotes[1])
              /\ EsCero(df["Lotes Acumulados"][i]) <=> ~Finite(df["Break Even"][i])
        /\ lotes = asignar_lotes(precio_inicial, precios) =>
              /\ Eq(Mul(lotes[1], Cte(15932, 10000)), Lit(5, 10))
              /\ \A i \in 1..NumFilas(df) :
                    /\ Lt(Cero, df["Lotes Acumulados"][i])
                    /\ Finite(df["Break Even"][i])

C7_Witness ==
    /\ pc = "a_acumulado"
    /\ NumFilas(df) = 3
    /\ EsCero(lotes[1])
    /\ EsCero(lotes[2])
    /\ ~Finite(df["Break Even"][2])
    /\ Finite(df["Break Even"][3])

==========================================================================
